---------------------------- MODULE Spec2Model ----------------------------
(***************************************************************************)
(* Model of src/main.py: a Telegram storefront bot (aiogram 2, polling).   *)
(*                                                                         *)
(* Every inbound update is handled by its own asyncio task.  A handler     *)
(* runs without interruption between two points where it really suspends   *)
(* (a network call of the bot API, asyncio.sleep); the sqlite3 calls are   *)
(* synchronous and the MemoryStorage calls never suspend.  The short       *)
(* An action is one such stretch: a handler up to its first bot API call,  *)
(* or the rest of a handler once that call has returned (resume) or raised. *)
(* The broadcast loop advances one send at a time.                         *)
(*                                                                         *)
(* Text is a sequence of one-character strings.  Callback data             *)
(* 'a|b|c' is the sequence <<"a","b","c">> of its '|'-separated fields.    *)
(***************************************************************************)
EXTENDS Integers, Sequences, FiniteSets, Bags, TLC

\* ------------------------------------------------------------------------
\* Bounds of the model
\* ------------------------------------------------------------------------
\* identities that send updates: 1..NumUsers
NumUsers == 2
\* identities preloaded in the user registry of SpecDispatch
NumRecipients == 5
\* broadcast dispatches (confirm presses accepted) per behaviour
MaxDispatch == 1
\* handlers suspended in a bot API call at a time, the broadcast loops aside
MaxPending == 1
\* product renders suspended in bot.edit_message_text at one time
MaxEdits == 1
\* values of the clock read by datetime.utcnow(): 0..MaxTime
MaxTime == 2

\* ------------------------------------------------------------------------
\* Configuration
\* ------------------------------------------------------------------------
ADMIN_ID == 1
MANAGER_USERNAME == "qwuzinw"

Users == 1..NumUsers
\* a chat that is not a private chat (the platform gives groups negative ids);
\* the private chat with user u has id u
GroupChat == 0 - 100
Chats == Users \cup {GroupChat}
\* storage keys (chat, user) of the updates the model delivers
Keys == {k \in Chats \X Users : k[1] = k[2] \/ k[1] = GroupChat}

Min(a, b) == IF a < b THEN a ELSE b

\* ------------------------------------------------------------------------
\* Text
\* ------------------------------------------------------------------------
Whitespace == {" ", "\t", "\n"}

RECURSIVE LStrip(_)
LStrip(t) ==
    IF t = <<>> THEN t
    ELSE IF Head(t) \in Whitespace THEN LStrip(Tail(t)) ELSE t

RECURSIVE RStrip(_)
RStrip(t) ==
    IF t = <<>> THEN t
    ELSE IF t[Len(t)] \in Whitespace THEN RStrip(SubSeq(t, 1, Len(t) - 1)) ELSE t

\* str.strip()
Strip(t) == RStrip(LStrip(t))

\* message.text[:4000]
BROADCAST_CAP == 4000
\* mutant: the text kept whole
Truncate_none(t) == t

Truncate(t) == SubSeq(t, 1, Min(Len(t), BROADCAST_CAP))

\* the first whitespace-separated word of a text
RECURSIVE FirstWord(_)
FirstWord(t) ==
    IF t = <<>> \/ Head(t) \in Whitespace THEN <<>>
    ELSE <<Head(t)>> \o FirstWord(Tail(t))

\* the filter commands=[name] of a message handler
IsCommand(m, name) == m.type = "text" /\ FirstWord(m.text) = <<"/">> \o name

StartsWithSlash(m) == m.type = "text" /\ m.text # <<>> /\ Head(m.text) = "/"

start == <<"s", "t", "a", "r", "t">>
admin == <<"a", "d", "m", "i", "n">>

\* ------------------------------------------------------------------------
\* Database (sqlite): a table is the set of its rows
\* ------------------------------------------------------------------------
DEFAULT_CARD ==
    <<"0", "0", "0", "0", " ", "0", "0", "0", "0", " ",
      "0", "0", "0", "0", " ", "0", "0", "0", "0">>
DEFAULT_FIO ==
    <<"F", ".", "I", ".", "O", ".", " ", "P", "o", "l", "u", "c", "h", "a", "t", "e", "l", "y", "a">>

\* REPLACE INTO settings(key, value): the row of that key is replaced
db_set_setting(table, key, value) ==
    {r \in table : r.key # key} \cup {[key |-> key, value |-> value]}

\* SELECT value FROM settings WHERE key = ?; '' when there is no row
db_get_setting(table, key) ==
    IF \E r \in table : r.key = key
    THEN (CHOOSE r \in table : r.key = key).value
    ELSE <<>>

None == "<None>"
OrEmpty(v) == IF v = None THEN "" ELSE v

\* mutant: INSERT INTO a table without the primary key
db_add_user_insert(table, user, utcnow) ==
    table \cup
    {[user_id |-> user.id,
      username |-> OrEmpty(user.username),
      first_name |-> OrEmpty(user.first_name),
      last_name |-> OrEmpty(user.last_name),
      registered_at |-> utcnow]}

\* REPLACE INTO users(...): user_id is the primary key
db_add_user(table, user, utcnow) ==
    {r \in table : r.user_id # user.id} \cup
    {[user_id |-> user.id,
      username |-> OrEmpty(user.username),
      first_name |-> OrEmpty(user.first_name),
      last_name |-> OrEmpty(user.last_name),
      registered_at |-> utcnow]}

\* the rows of a table in rowid order (user_id is the rowid)
RECURSIVE RowsInOrder(_)
RowsInOrder(table) ==
    IF table = {} THEN <<>>
    ELSE LET r == CHOOSE x \in table : \A y \in table : x.user_id <= y.user_id
         IN <<r>> \o RowsInOrder(table \ {r})

\* SELECT user_id FROM users
db_get_all_user_ids(table) ==
    LET rows == RowsInOrder(table)
    IN [i \in 1..Len(rows) |-> rows[i].user_id]

\* the tables after init_db() on an empty database
InitSettings ==
    {[key |-> "card_number", value |-> DEFAULT_CARD],
     [key |-> "recipient_fio", value |-> DEFAULT_FIO]}

\* ------------------------------------------------------------------------
\* Products
\* ------------------------------------------------------------------------
SubjectKeys == <<"math_p", "rus", "bio", "info", "hist", "soc", "chem", "phys">>

SUBJECTS ==
    [k \in {SubjectKeys[i] : i \in 1..Len(SubjectKeys)} |->
        CASE k = "math_p" -> <<"Profilnaya matematika", 499>>
          [] k = "rus"    -> <<"Russkiy yazyk", 499>>
          [] k = "bio"    -> <<"Biologiya", 349>>
          [] k = "info"   -> <<"Informatika", 349>>
          [] k = "hist"   -> <<"Istoriya", 349>>
          [] k = "soc"    -> <<"Obshchestvoznanie", 349>>
          [] k = "chem"   -> <<"Khimiya", 329>>
          [] k = "phys"   -> <<"Fizika", 329>>]

SCHOOLS == <<"stoballny", "pifagor">>

\* ------------------------------------------------------------------------
\* Keyboards (InlineKeyboardMarkup)
\* ------------------------------------------------------------------------
InlineKeyboardMarkup(row_width) == [row_width |-> row_width, inline_keyboard |-> <<>>]

CallbackButton(text, data) == [text |-> text, callback_data |-> data]
UrlButton(text, url) == [text |-> text, url |-> url]

\* kb.add(button): the button starts a new row
kb_add(kb, button) ==
    [kb EXCEPT !.inline_keyboard = Append(@, <<button>>)]

\* kb.insert(button): appended to the last row while it has room
kb_insert(kb, button) ==
    LET rows == kb.inline_keyboard
        n == Len(rows)
    IN IF n > 0 /\ Len(rows[n]) < kb.row_width
       THEN [kb EXCEPT !.inline_keyboard[n] = Append(@, button)]
       ELSE kb_add(kb, button)

make_start_keyboard ==
    kb_add(InlineKeyboardMarkup(1), CallbackButton(<<"Kupit dostup">>, <<"buy">>))

RECURSIVE InsertSubjects(_, _)
InsertSubjects(kb, i) ==
    IF i > Len(SubjectKeys) THEN kb
    ELSE LET key == SubjectKeys[i]
         IN InsertSubjects(
               kb_insert(kb, CallbackButton(<<SUBJECTS[key][1], SUBJECTS[key][2]>>,
                                            <<"subj", key>>)),
               i + 1)

make_subjects_keyboard ==
    kb_add(InsertSubjects(InlineKeyboardMarkup(2), 1),
           CallbackButton(<<"Nazad">>, <<"back_start">>))

RECURSIVE InsertSchools(_, _, _)
InsertSchools(kb, subject_key, i) ==
    IF i > Len(SCHOOLS) THEN kb
    ELSE InsertSchools(
            kb_insert(kb, CallbackButton(<<"capitalize", SCHOOLS[i]>>,
                                         <<"school", subject_key, SCHOOLS[i]>>)),
            subject_key, i + 1)

make_schools_keyboard(subject_key) ==
    kb_add(InsertSchools(InlineKeyboardMarkup(2), subject_key, 1),
           CallbackButton(<<"Nazad">>, <<"back_subjects">>))

make_admin_keyboard ==
    kb_add(kb_add(InlineKeyboardMarkup(1),
                  CallbackButton(<<"Rassylka">>, <<"admin_broadcast">>)),
           CallbackButton(<<"Ukazat nomer karty">>, <<"admin_set_card">>))


\* ------------------------------------------------------------------------
\* Rendered menu content
\* ------------------------------------------------------------------------
\* the text of cmd_start: four paragraphs
WelcomeText ==
    <<"Dobro pozhalovat v EGE Shkolu Onlayn",
      "Zdes vy mozhete kupit dostup k videourokam, avtorskim zadaniyam i razboru zadach ot opytnyh prepodavateley.",
      "Dostupna podgotovka po profilnoy i bazovoy programme",
      "Vyberite predmet i programmu">>

\* the text of back_start: two paragraphs, the second cut short
BackStartText ==
    <<"Dobro pozhalovat v EGE Shkolu Onlayn",
      "Zdes vy mozhete kupit dostup k videourokam...">>

SubjectsText == <<"Vyberite predmet:">>

SubjectText(subj_key) == <<"Predmet:", SUBJECTS[subj_key][1], "Vyberite programmu:">>

\* the f-string of process_school
ProductText(subj_title, school, price, card, fio) ==
    [tovar |-> <<subj_title, school>>,
     tsena |-> price,
     rekvizity |-> <<card, fio>>,
     manager |-> MANAGER_USERNAME]

ProductKeyboard ==
    kb_add(kb_add(InlineKeyboardMarkup(1),
                  UrlButton(<<"Svyazatsya s menedzherom">>, <<"https://t.me/", MANAGER_USERNAME>>)),
           CallbackButton(<<"Nazad k predmetam">>, <<"back_subjects">>))

\* what a chat shows after message.answer / bot.edit_message_text
Render(chat, text, reply_markup, parse_mode) ==
    [chat |-> chat, text |-> text, reply_markup |-> reply_markup, parse_mode |-> parse_mode]

NoChat == 0 - 1
NoRender == [chat |-> NoChat]

\* the callback data of the buttons of a keyboard
ButtonData(kb) ==
    {kb.inline_keyboard[i][j].callback_data :
        <<i, j>> \in {p \in (1..Len(kb.inline_keyboard)) \X (1..kb.row_width) :
                        /\ p[2] <= Len(kb.inline_keyboard[p[1]])
                        /\ "callback_data" \in DOMAIN kb.inline_keyboard[p[1]][p[2]]}}

\* ------------------------------------------------------------------------
\* FSM storage (MemoryStorage): per (chat, user) a state and a data dict
\* ------------------------------------------------------------------------
NoData == [k \in {} |-> <<>>]
NoSession == [state |-> None, data |-> NoData]

\* State.set(): the state changes, the data stays
set_state(st, key, state) == [st EXCEPT ![key].state = state]

\* FSMContext.update_data(name=value)
update_data(st, key, name, value) ==
    [st EXCEPT ![key].data =
        [k \in DOMAIN @ \cup {name} |-> IF k = name THEN value ELSE @[k]]]

\* data.get(name, '')
data_get(data, name) == IF name \in DOMAIN data THEN data[name] ELSE <<>>

\* finish() as it would be if it reset the state and kept the data
finish_keeps_data(st, key) == [st EXCEPT ![key].state = None]

\* FSMContext.finish(): state and data are reset
finish(st, key) == [st EXCEPT ![key] = NoSession]

\* ------------------------------------------------------------------------
\* State
\* ------------------------------------------------------------------------
VARIABLES
    users,       \* table users
    settings,    \* table settings
    storage,     \* FSM storage: Keys -> [state, data]
    pending,     \* bag of handlers suspended in a bot API call: what each does next
                 \* (set a state, finish the session, or show a render)
    dispatches,  \* the runs of the broadcast loop, in the order they started
    inbox,       \* per identity, the broadcast messages delivered to it
    rendered,    \* the menu message rendered last
    trail,       \* history: the handlers that produced it, since the last /start of its chat
    entered,     \* history: per key, the raw text each text handler consumed last
    lastFlow,    \* history: the raw texts of the payment flow that wrote the settings last
    started,     \* history: per identity, the last /start that cmd_start handled
    fallback,    \* of the message catch_all handled last: its chat, whether it began
                 \* with a slash, whether the notice was sent
    now          \* the clock

vars == <<users, settings, storage, pending, dispatches, inbox, rendered, trail,
          entered, lastFlow, started, fallback, now>>

Identities == 1..(IF NumUsers < NumRecipients THEN NumRecipients ELSE NumUsers)

\* current: the text of the broadcast flow under way, none when the session
\* has been reset
NoEntry == [broadcast_text |-> <<>>, card_number |-> <<>>, current |-> <<>>]
NoFallback == [chat |-> NoChat]
DefaultPair == [card |-> DEFAULT_CARD, fio |-> DEFAULT_FIO]
NoFlow == [done |-> FALSE, x |-> <<>>, y |-> <<>>, card |-> <<>>, fio |-> <<>>]

Init ==
    /\ users = {}
    /\ settings = InitSettings
    /\ storage = [k \in Keys |-> NoSession]
    /\ pending = EmptyBag
    /\ dispatches = <<>>
    /\ inbox = [u \in Identities |-> <<>>]
    /\ rendered = NoRender
    /\ trail = <<>>
    /\ entered = [k \in Keys |-> NoEntry]
    /\ lastFlow = NoFlow
    /\ started = {}
    /\ fallback = NoFallback
    /\ now = 0

\* the storage key of an update
KeyOf(upd) == <<upd.chat, upd.from_user.id>>
StateOf(upd) == storage[KeyOf(upd)].state

\* the last NavWindow entries of a trail
NavWindow == 6
Recent(t) == IF Len(t) <= NavWindow THEN t ELSE SubSeq(t, Len(t) - NavWindow + 1, Len(t))

\* the handler suspends in a bot API call; when the call returns it does `then`:
\* sets that state, or finishes the session
Suspended(then) == {c \in BagToSet(pending) : (c.then = "edit") <=> (then = "edit")}
Count(cs) == BagCardinality([c \in cs |-> pending[c]])

Await(key, then) ==
    /\ Count(Suspended(then)) < MaxPending
    /\ pending' = pending (+) SetToBag({[key |-> key, then |-> then, render |-> NoRender]})

\* the call of a suspended handler returns (ok) or raises, which ends the handler
resume(c, ok) ==
    /\ BagIn(c, pending)
    /\ c.then # "edit"
    /\ pending' = pending (-) SetToBag({c})
    /\ IF ~ok
       THEN UNCHANGED <<storage, entered>>
       ELSE IF c.then = "finish"
            THEN /\ storage' = finish(storage, c.key)
                 /\ entered' = [entered EXCEPT ![c.key].current = <<>>]
            ELSE /\ storage' = set_state(storage, c.key, c.then)
                 /\ UNCHANGED entered
    /\ UNCHANGED <<fallback, users, settings, dispatches, inbox, rendered, trail, lastFlow, started, now>>

\* ------------------------------------------------------------------------
\* Handlers: registration and menu navigation
\* A handler registered without state= runs only when the sender's state
\* is None (aiogram's StateFilter is a required filter).
\* ------------------------------------------------------------------------
cmd_start(m) ==
    /\ StateOf(m) = None
    /\ IsCommand(m, start)
    /\ users' = db_add_user(users, m.from_user, now)
    /\ rendered' = Render(m.chat, WelcomeText, make_start_keyboard, "Markdown")
    /\ trail' = <<"cmd_start">>
    /\ started' = {s \in started : s.id # m.from_user.id}
                  \cup {[id |-> m.from_user.id, user |-> m.from_user, at |-> now,
                         first_at |-> IF \E s \in started : s.id = m.from_user.id
                                      THEN (CHOOSE s \in started : s.id = m.from_user.id).first_at
                                      ELSE now]}
    /\ UNCHANGED <<fallback, settings, storage, pending, dispatches, inbox, entered, lastFlow, now>>

\* bot.edit_message_text on the menu message of the chat
Edit(cb, handler, text, reply_markup, parse_mode) ==
    /\ rendered' = Render(cb.chat, text, reply_markup, parse_mode)
    /\ trail' = IF rendered.chat = cb.chat THEN Recent(Append(trail, handler)) ELSE <<handler>>
    /\ UNCHANGED <<fallback, users, settings, storage, pending, dispatches, inbox, entered, lastFlow,
                   started, now>>

process_buy(cb) ==
    /\ StateOf(cb) = None
    /\ cb.data = <<"buy">>
    /\ Edit(cb, "process_buy", SubjectsText, make_subjects_keyboard, None)

process_subject(cb) ==
    /\ StateOf(cb) = None
    /\ Len(cb.data) >= 2 /\ cb.data[1] = "subj"
    /\ LET subj_key == cb.data[2]
       IN Edit(cb, "process_subject", SubjectText(subj_key),
               make_schools_keyboard(subj_key), "Markdown")

\* the two settings as process_school reads them, one after the other with
\* no await between
ReadPayment(table) ==
    [card |-> db_get_setting(table, "card_number"),
     fio |-> db_get_setting(table, "recipient_fio")]

\* cb.answer() has returned: the settings are read, the text is built, and
\* the handler suspends in bot.edit_message_text
process_school(cb) ==
    /\ StateOf(cb) = None
    /\ Len(cb.data) >= 3 /\ cb.data[1] = "school"
    /\ Count(Suspended("edit")) < MaxEdits
    /\ LET subj_key == cb.data[2]
           school == cb.data[3]
           subj_title == SUBJECTS[subj_key][1]
           price == SUBJECTS[subj_key][2]
           pay == ReadPayment(settings)
           text == ProductText(subj_title, school, price, pay.card, pay.fio)
       IN pending' = pending (+) SetToBag({[key |-> KeyOf(cb), then |-> "edit",
                         render |-> Render(cb.chat, text, ProductKeyboard, "Markdown")]})
    /\ UNCHANGED <<fallback, users, settings, storage, dispatches, inbox, rendered, trail, entered,
                   lastFlow, started, now>>

\* bot.edit_message_text of process_school returns (the chat shows the product)
\* or raises
process_school_edit(c, ok) ==
    /\ BagIn(c, pending)
    /\ c.then = "edit"
    /\ pending' = pending (-) SetToBag({c})
    /\ IF ok
       THEN /\ rendered' = c.render
            /\ trail' = IF rendered.chat = c.render.chat
                        THEN Recent(Append(trail, "process_school"))
                        ELSE <<"process_school">>
       ELSE UNCHANGED <<rendered, trail>>
    /\ UNCHANGED <<fallback, users, settings, storage, dispatches, inbox, entered, lastFlow, started, now>>

back_subjects(cb) ==
    /\ StateOf(cb) = None
    /\ cb.data = <<"back_subjects">>
    /\ Edit(cb, "back_subjects", SubjectsText, make_subjects_keyboard, None)

back_start(cb) ==
    /\ StateOf(cb) = None
    /\ cb.data = <<"back_start">>
    /\ Edit(cb, "back_start", BackStartText, make_start_keyboard, "Markdown")

\* ------------------------------------------------------------------------
\* Handlers: admin panel and broadcast
\* ------------------------------------------------------------------------
cmd_admin(m) ==
    /\ StateOf(m) = None
    /\ IsCommand(m, admin)
    /\ UNCHANGED vars

admin_broadcast(cb) ==
    /\ StateOf(cb) = None
    /\ cb.data = <<"admin_broadcast">>
    /\ IF cb.from_user.id # ADMIN_ID
       THEN UNCHANGED pending
       ELSE Await(KeyOf(cb), "waiting_broadcast_text")
    /\ UNCHANGED <<fallback, users, settings, storage, dispatches, inbox, rendered, trail,
                   entered, lastFlow, started, now>>

receive_broadcast_text(m) ==
    /\ StateOf(m) = "waiting_broadcast_text"
    /\ m.type = "text"
    /\ IF m.from_user.id # ADMIN_ID
       THEN UNCHANGED <<storage, pending, entered>>
       ELSE LET text == Truncate(m.text)
            IN /\ storage' = update_data(storage, KeyOf(m), "broadcast_text", text)
               /\ entered' = [entered EXCEPT ![KeyOf(m)].broadcast_text = m.text,
                                             ![KeyOf(m)].current = m.text]
               /\ Await(KeyOf(m), "waiting_broadcast_confirm")
    /\ UNCHANGED <<fallback, users, settings, dispatches, inbox, rendered, trail, lastFlow, started, now>>

\* the broadcast loop of a confirm press, suspended in cb.answer
NewDispatch(key, text) ==
    [key |-> key, text |-> text, pc |-> "answer", user_ids |-> <<>>,
     sent |-> 0, failed |-> 0, log |-> <<>>, report |-> <<>>]

\* mutant: the cancel branch without its return, so that it runs on into the
\* confirm branch with the data it has just reset
broadcast_confirm_or_cancel_no_return(cb, limit) ==
    /\ StateOf(cb) = "waiting_broadcast_confirm"
    /\ cb.data \in {<<"broadcast_cancel">>, <<"broadcast_confirm">>}
    /\ IF cb.from_user.id # ADMIN_ID
       THEN UNCHANGED <<storage, dispatches>>
       ELSE /\ Len(dispatches) < limit
            /\ IF cb.data = <<"broadcast_cancel">>
               THEN /\ storage' = finish(storage, KeyOf(cb))
                    /\ dispatches' = Append(dispatches, NewDispatch(KeyOf(cb), <<>>))
               ELSE /\ dispatches' = Append(dispatches,
                           NewDispatch(KeyOf(cb),
                                       data_get(storage[KeyOf(cb)].data, "broadcast_text")))
                    /\ UNCHANGED storage
    /\ UNCHANGED <<fallback, users, settings, pending, inbox, rendered, trail, entered, lastFlow,
                   started, now>>

\* the handler as it would be with a re-entrancy guard: a confirm press is
\* dropped while a dispatch of the same session is still running
broadcast_confirm_or_cancel_guarded(cb, limit) ==
    /\ StateOf(cb) = "waiting_broadcast_confirm"
    /\ cb.data \in {<<"broadcast_cancel">>, <<"broadcast_confirm">>}
    /\ IF cb.from_user.id # ADMIN_ID
       THEN UNCHANGED <<storage, dispatches, entered>>
       ELSE IF cb.data = <<"broadcast_cancel">>
            THEN /\ storage' = finish(storage, KeyOf(cb))
                 /\ entered' = [entered EXCEPT ![KeyOf(cb)].current = <<>>]
                 /\ UNCHANGED dispatches
            ELSE /\ Len(dispatches) < limit
                 /\ \A d \in 1..Len(dispatches) :
                       dispatches[d].key = KeyOf(cb) =>
                           dispatches[d].pc \notin {"answer", "send", "report"}
                 /\ LET data == storage[KeyOf(cb)].data
                        text == data_get(data, "broadcast_text")
                    IN dispatches' = Append(dispatches, NewDispatch(KeyOf(cb), text))
                 /\ UNCHANGED <<storage, entered>>
    /\ UNCHANGED <<fallback, users, settings, pending, inbox, rendered, trail, lastFlow, started, now>>

broadcast_confirm_or_cancel(cb, limit) ==
    /\ StateOf(cb) = "waiting_broadcast_confirm"
    /\ cb.data \in {<<"broadcast_cancel">>, <<"broadcast_confirm">>}
    /\ IF cb.from_user.id # ADMIN_ID
       THEN UNCHANGED <<storage, dispatches, entered>>
       ELSE IF cb.data = <<"broadcast_cancel">>
            THEN /\ storage' = finish(storage, KeyOf(cb))
                 /\ entered' = [entered EXCEPT ![KeyOf(cb)].current = <<>>]
                 /\ UNCHANGED dispatches
            ELSE /\ Len(dispatches) < limit
                 /\ LET data == storage[KeyOf(cb)].data
                        text == data_get(data, "broadcast_text")
                    IN dispatches' = Append(dispatches, NewDispatch(KeyOf(cb), text))
                 /\ UNCHANGED <<storage, entered>>
    /\ UNCHANGED <<fallback, users, settings, pending, inbox, rendered, trail, lastFlow, started, now>>

\* cb.answer('Zapusk rassylki...') returns: the recipient list is read
dispatch_start(d, ok) ==
    /\ d \in 1..Len(dispatches)
    /\ dispatches[d].pc = "answer"
    /\ IF ok
       THEN LET user_ids == db_get_all_user_ids(users)
            IN dispatches' = [dispatches EXCEPT
                   ![d].user_ids = user_ids,
                   ![d].pc = IF user_ids = <<>> THEN "report" ELSE "send"]
       ELSE dispatches' = [dispatches EXCEPT ![d].pc = "raised"]
    /\ UNCHANGED <<fallback, users, settings, storage, pending, inbox, rendered, trail,
                   entered, lastFlow, started, now>>

\* mutant: the loop without its try/except, a failed send ends the handler
dispatch_send_no_catch(d, ok) ==
    /\ d \in 1..Len(dispatches)
    /\ dispatches[d].pc = "send"
    /\ ok => dispatches[d].text # <<>>
    /\ LET t == dispatches[d]
           i == Len(t.log) + 1
           uid == t.user_ids[i]
       IN IF ok
          THEN /\ inbox' = [inbox EXCEPT ![uid] = Append(@, t.text)]
               /\ dispatches' = [dispatches EXCEPT
                      ![d].sent = @ + 1,
                      ![d].log = Append(@, [uid |-> uid, ok |-> TRUE]),
                      ![d].pc = IF i = Len(t.user_ids) THEN "report" ELSE "send"]
          ELSE /\ dispatches' = [dispatches EXCEPT ![d].pc = "raised"]
               /\ UNCHANGED inbox
    /\ UNCHANGED <<fallback, users, settings, storage, pending, rendered, trail,
                   entered, lastFlow, started, now>>

\* the loop as it would be if it read the registry again on every turn
dispatch_send_rereads(d, ok) ==
    /\ d \in 1..Len(dispatches)
    /\ dispatches[d].pc = "send"
    /\ ok => dispatches[d].text # <<>>
    /\ LET t == dispatches[d]
           user_ids == db_get_all_user_ids(users)
           i == Len(t.log) + 1
           uid == user_ids[i]
       IN /\ inbox' = IF ok THEN [inbox EXCEPT ![uid] = Append(@, t.text)] ELSE inbox
          /\ dispatches' = [dispatches EXCEPT
                 ![d].user_ids = user_ids,
                 ![d].sent = IF ok THEN @ + 1 ELSE @,
                 ![d].failed = IF ok THEN @ ELSE @ + 1,
                 ![d].log = Append(@, [uid |-> uid, ok |-> ok]),
                 ![d].pc = IF i = Len(user_ids) THEN "report" ELSE "send"]
    /\ UNCHANGED <<fallback, users, settings, storage, pending, rendered, trail,
                   entered, lastFlow, started, now>>

\* one turn of the loop: bot.send_message(uid, text) returns or raises, it is
\* counted, then the sleep; the Bot API rejects an empty text, so that send
\* only raises
dispatch_send(d, ok) ==
    /\ d \in 1..Len(dispatches)
    /\ dispatches[d].pc = "send"
    /\ ok => dispatches[d].text # <<>>
    /\ LET t == dispatches[d]
           i == Len(t.log) + 1
           uid == t.user_ids[i]
       IN /\ inbox' = IF ok THEN [inbox EXCEPT ![uid] = Append(@, t.text)] ELSE inbox
          /\ dispatches' = [dispatches EXCEPT
                 ![d].sent = IF ok THEN @ + 1 ELSE @,
                 ![d].failed = IF ok THEN @ ELSE @ + 1,
                 ![d].log = Append(@, [uid |-> uid, ok |-> ok]),
                 ![d].pc = IF i = Len(t.user_ids) THEN "report" ELSE "send"]
    /\ UNCHANGED <<fallback, users, settings, storage, pending, rendered, trail,
                   entered, lastFlow, started, now>>

\* the report to the administrator returns, then state.finish(); or it raises
dispatch_report(d, ok) ==
    /\ d \in 1..Len(dispatches)
    /\ dispatches[d].pc = "report"
    /\ IF ok
       THEN /\ dispatches' = [dispatches EXCEPT
                   ![d].report = <<[sent |-> dispatches[d].sent, failed |-> dispatches[d].failed]>>,
                   ![d].pc = "done"]
            /\ storage' = finish(storage, dispatches[d].key)
            /\ entered' = [entered EXCEPT ![dispatches[d].key].current = <<>>]
       ELSE /\ dispatches' = [dispatches EXCEPT ![d].pc = "raised"]
            /\ UNCHANGED <<storage, entered>>
    /\ UNCHANGED <<fallback, users, settings, pending, inbox, rendered, trail, lastFlow,
                   started, now>>

\* ------------------------------------------------------------------------
\* Handlers: payment details
\* ------------------------------------------------------------------------
\* mutant: the button without its administrator check
admin_set_card_unchecked(cb) ==
    /\ StateOf(cb) = None
    /\ cb.data = <<"admin_set_card">>
    /\ Await(KeyOf(cb), "waiting_card_number")
    /\ UNCHANGED <<fallback, users, settings, storage, dispatches, inbox, rendered, trail,
                   entered, lastFlow, started, now>>

admin_set_card(cb) ==
    /\ StateOf(cb) = None
    /\ cb.data = <<"admin_set_card">>
    /\ IF cb.from_user.id # ADMIN_ID
       THEN UNCHANGED pending
       ELSE Await(KeyOf(cb), "waiting_card_number")
    /\ UNCHANGED <<fallback, users, settings, storage, dispatches, inbox, rendered, trail,
                   entered, lastFlow, started, now>>

\* the step as it would be if the card number were saved as soon as it is given
receive_card_number_saves(m) ==
    /\ StateOf(m) = "waiting_card_number"
    /\ m.type = "text"
    /\ IF m.from_user.id # ADMIN_ID
       THEN UNCHANGED <<storage, pending, entered, settings>>
       ELSE LET card == Strip(m.text)
            IN /\ storage' = update_data(storage, KeyOf(m), "card_number", card)
               /\ settings' = db_set_setting(settings, "card_number", card)
               /\ entered' = [entered EXCEPT ![KeyOf(m)].card_number = m.text]
               /\ Await(KeyOf(m), "waiting_recipient_fio")
    /\ UNCHANGED <<fallback, users, dispatches, inbox, rendered, trail, lastFlow, started, now>>

receive_card_number(m) ==
    /\ StateOf(m) = "waiting_card_number"
    /\ m.type = "text"
    /\ IF m.from_user.id # ADMIN_ID
       THEN UNCHANGED <<storage, pending, entered>>
       ELSE LET card == Strip(m.text)
            IN /\ storage' = update_data(storage, KeyOf(m), "card_number", card)
               /\ entered' = [entered EXCEPT ![KeyOf(m)].card_number = m.text]
               /\ Await(KeyOf(m), "waiting_recipient_fio")
    /\ UNCHANGED <<fallback, users, settings, dispatches, inbox, rendered, trail, lastFlow, started, now>>

\* mutant: only the first of the two writes lands in the step
WritePayment_card_only(table, card, fio) ==
    db_set_setting(table, "card_number", card)

\* the two db_set_setting calls of receive_recipient_fio, with no await between
WritePayment(table, card, fio) ==
    db_set_setting(db_set_setting(table, "card_number", card), "recipient_fio", fio)

receive_recipient_fio(m) ==
    /\ StateOf(m) = "waiting_recipient_fio"
    /\ m.type = "text"
    /\ IF m.from_user.id # ADMIN_ID
       THEN UNCHANGED <<settings, pending, lastFlow>>
       ELSE LET fio == Strip(m.text)
                data == storage[KeyOf(m)].data
                card == data_get(data, "card_number")
            IN /\ settings' = WritePayment(settings, card, fio)
               /\ lastFlow' = [done |-> TRUE, x |-> entered[KeyOf(m)].card_number,
                               y |-> m.text, card |-> card, fio |-> fio]
               /\ Await(KeyOf(m), "finish")
    /\ UNCHANGED <<fallback, users, storage, dispatches, inbox, rendered, trail, entered, started, now>>

\* ------------------------------------------------------------------------
\* Fallback, and the clock
\* ------------------------------------------------------------------------
\* the fallback as it would be if it answered every message it takes
catch_all_notify_all(m) ==
    /\ StateOf(m) = None
    /\ ~IsCommand(m, start)
    /\ ~IsCommand(m, admin)
    /\ fallback' = [chat |-> m.chat, slash |-> StartsWithSlash(m), notice |-> TRUE]
    /\ UNCHANGED <<users, settings, storage, pending, dispatches, inbox, rendered, trail,
                   entered, lastFlow, started, now>>

\* any message no earlier handler takes, from a sender whose state is None
catch_all(m) ==
    /\ StateOf(m) = None
    /\ ~IsCommand(m, start)
    /\ ~IsCommand(m, admin)
    /\ fallback' = [chat |-> m.chat, slash |-> StartsWithSlash(m),
                    notice |-> ~StartsWithSlash(m)]
    /\ UNCHANGED <<users, settings, storage, pending, dispatches, inbox, rendered, trail,
                   entered, lastFlow, started, now>>

Tick ==
    /\ now < MaxTime
    /\ now' = now + 1
    /\ UNCHANGED <<fallback, users, settings, storage, pending, dispatches, inbox, rendered, trail,
                   entered, lastFlow, started>>

\* ------------------------------------------------------------------------
\* Updates
\* ------------------------------------------------------------------------
Profile(u) == [id |-> u, username |-> None, first_name |-> "user", last_name |-> None]

Message(chat, from_user, type, text) ==
    [chat |-> chat, from_user |-> from_user, type |-> type, text |-> text]

CallbackQuery(chat, from_user, data) ==
    [chat |-> chat, from_user |-> from_user, data |-> data]

CmdStart == <<"/">> \o start
CmdAdmin == <<"/">> \o admin
Padded == <<" ", "4", "2", " ">>

\* what a suspended handler may do next
Continuations ==
    {[key |-> k, then |-> t, render |-> NoRender] :
        k \in Keys,
        t \in {"waiting_broadcast_text", "waiting_broadcast_confirm",
               "waiting_card_number", "waiting_recipient_fio", "finish"}}

\* ------------------------------------------------------------------------
\* Spec: the admin flows, the broadcast loop and registration, with every
\* user in its private chat
\* ------------------------------------------------------------------------
MainTexts == {CmdStart, Padded}

\* text messages, of which /start is one
TextMessages == {Message(u, Profile(u), "text", t) : u \in Users, t \in MainTexts}

\* /admin and a photo, sent by users with no flow under way
OtherMessages ==
    {Message(u, Profile(u), "text", CmdAdmin) : u \in Users}
    \cup {Message(u, Profile(u), "photo", <<>>) : u \in Users}

MainCallbacks ==
    {CallbackQuery(u, Profile(u), <<d>>) :
        u \in Users,
        d \in {"admin_broadcast", "admin_set_card", "broadcast_confirm", "broadcast_cancel"}}

Next ==
    \/ \E m \in TextMessages : cmd_start(m)
    \/ \E m \in OtherMessages : cmd_admin(m)
    \/ \E cb \in MainCallbacks : admin_broadcast(cb)
    \/ \E m \in TextMessages : receive_broadcast_text(m)
    \/ \E cb \in MainCallbacks : broadcast_confirm_or_cancel(cb, MaxDispatch)
    \/ \E d \in 1..MaxDispatch, ok \in BOOLEAN : dispatch_start(d, ok)
    \/ \E d \in 1..MaxDispatch, ok \in BOOLEAN : dispatch_send(d, ok)
    \/ \E d \in 1..MaxDispatch, ok \in BOOLEAN : dispatch_report(d, ok)
    \/ \E cb \in MainCallbacks : admin_set_card(cb)
    \/ \E m \in TextMessages : receive_card_number(m)
    \/ \E m \in TextMessages : receive_recipient_fio(m)
    \/ \E m \in TextMessages \cup OtherMessages : catch_all(m)
    \/ \E c \in Continuations, ok \in BOOLEAN : resume(c, ok)

Spec == Init /\ [][Next]_vars


\* ------------------------------------------------------------------------
\* SpecPay: the payment-details flow and product-detail renders
\* ------------------------------------------------------------------------
Ivan == <<"I", "v", "a", "n", "\n">>
PayTexts == {Padded, Ivan}
PayMessages == {Message(u, Profile(u), "text", t) : u \in Users, t \in PayTexts}
PayCallbacks == {CallbackQuery(u, Profile(u), <<"admin_set_card">>) : u \in Users}
\* the product buttons pressed
SchoolCallbacks ==
    {CallbackQuery(u, Profile(u), <<"school", "phys", school>>) :
        u \in Users, school \in {SCHOOLS[1]}}

NextPay ==
    \/ \E cb \in PayCallbacks : admin_set_card(cb)
    \/ \E m \in PayMessages : receive_card_number(m)
    \/ \E m \in PayMessages : receive_recipient_fio(m)
    \/ \E c \in Continuations, ok \in BOOLEAN : resume(c, ok)
    \/ \E cb \in SchoolCallbacks : process_school(cb)
    \/ \E c \in BagToSet(pending), ok \in BOOLEAN : process_school_edit(c, ok)

SpecPay == Init /\ [][NextPay]_vars

\* ------------------------------------------------------------------------
\* SpecDispatch: one broadcast over a registry of NumRecipients identities,
\* from the state where the administrator sees the preview
\* ------------------------------------------------------------------------
Hello == <<"H", "e", "l", "l", "o">>
AdminKey == <<ADMIN_ID, ADMIN_ID>>

RECURSIVE Registered(_)
Registered(n) ==
    IF n = 0 THEN {} ELSE db_add_user(Registered(n - 1), Profile(n), 0)

InitDispatch ==
    /\ users = Registered(NumRecipients)
    /\ started = {[id |-> u, user |-> Profile(u), at |-> 0, first_at |-> 0] :
                    u \in 1..NumRecipients}
    /\ settings = InitSettings
    /\ storage = [k \in Keys |->
                    IF k = AdminKey
                    THEN [state |-> "waiting_broadcast_confirm",
                          data |-> [n \in {"broadcast_text"} |-> Truncate(Hello)]]
                    ELSE NoSession]
    /\ entered = [k \in Keys |->
                    IF k = AdminKey
                    THEN [NoEntry EXCEPT !.broadcast_text = Hello, !.current = Hello]
                    ELSE NoEntry]
    /\ pending = EmptyBag
    /\ dispatches = <<>>
    /\ inbox = [u \in Identities |-> <<>>]
    /\ rendered = Render(NumRecipients, WelcomeText, make_start_keyboard, "Markdown")
    /\ trail = <<"cmd_start">>
    /\ lastFlow = NoFlow
    /\ fallback = NoFallback
    /\ now = 0

DispatchCallbacks ==
    {CallbackQuery(u, Profile(u), <<d>>) :
        u \in {ADMIN_ID}, d \in {"broadcast_confirm", "broadcast_cancel"}}

NextDispatch ==
    \/ \E cb \in DispatchCallbacks : broadcast_confirm_or_cancel(cb, 1)
    \/ \E ok \in BOOLEAN : dispatch_start(1, ok)
    \/ \E ok \in BOOLEAN : dispatch_send(1, ok)
    \/ \E ok \in BOOLEAN : dispatch_report(1, ok)

SpecDispatch == InitDispatch /\ [][NextDispatch]_vars

\* ------------------------------------------------------------------------
\* SpecText: broadcast texts around the cap
\* ------------------------------------------------------------------------
Fill(n, last) == [i \in 1..n |-> IF i = n THEN last ELSE "a"]

TextLengths == {1, 2, BROADCAST_CAP - 1, BROADCAST_CAP, BROADCAST_CAP + 1, BROADCAST_CAP + 2}

LongMessages ==
    {Message(ADMIN_ID, Profile(ADMIN_ID), "text", Fill(n, c)) :
        n \in TextLengths, c \in {"a", "b", "c"}}

TextCallbacks ==
    {CallbackQuery(ADMIN_ID, Profile(ADMIN_ID), <<d>>) :
        d \in {"admin_broadcast", "broadcast_cancel"}}

NextText ==
    \/ \E cb \in TextCallbacks : admin_broadcast(cb)
    \/ \E m \in LongMessages : receive_broadcast_text(m)
    \/ \E cb \in TextCallbacks : broadcast_confirm_or_cancel(cb, 0)
    \/ \E c \in Continuations, ok \in BOOLEAN : resume(c, ok)

SpecText == Init /\ [][NextText]_vars

\* ------------------------------------------------------------------------
\* SpecReg: registration, with changing display fields and a running clock
\* ------------------------------------------------------------------------
Profiles(u) ==
    {Profile(u),
     [id |-> u, username |-> "nick", first_name |-> "name", last_name |-> "surname"]}

RegMessages ==
    {Message(c, prof, "text", CmdStart) :
        <<c, prof>> \in {x \in Chats \X UNION {Profiles(u) : u \in Users} :
                            <<x[1], x[2].id>> \in Keys}}

NextReg ==
    \/ \E m \in RegMessages : cmd_start(m)
    \/ Tick

SpecReg == Init /\ [][NextReg]_vars

\* ------------------------------------------------------------------------
\* SpecNav: menu navigation; a user presses a button of the menu message
\* rendered last
\* ------------------------------------------------------------------------
Pressable ==
    IF rendered = NoRender THEN {}
    ELSE {CallbackQuery(rendered.chat, Profile(rendered.chat), d) :
            d \in ButtonData(rendered.reply_markup)}

StartMessages == {Message(u, Profile(u), "text", CmdStart) : u \in Users}

NextNav ==
    \/ \E m \in StartMessages : cmd_start(m)
    \/ \E cb \in Pressable : process_buy(cb)
    \/ \E cb \in Pressable : process_subject(cb)
    \/ \E cb \in Pressable : process_school(cb)
    \/ \E c \in BagToSet(pending), ok \in BOOLEAN : process_school_edit(c, ok)
    \/ \E cb \in Pressable : back_subjects(cb)
    \/ \E cb \in Pressable : back_start(cb)

SpecNav == Init /\ [][NextNav]_vars


\* ------------------------------------------------------------------------
\* SpecChats: the administrator writes to the bot in its private chat and in
\* a group; the FSM storage keeps a session per (chat, user)
\* ------------------------------------------------------------------------
AdminChats == {ADMIN_ID, GroupChat}
AdminKeys == {k \in Keys : k[2] = ADMIN_ID}

ChatMessages ==
    {Message(c, Profile(ADMIN_ID), "text", t) : c \in AdminChats, t \in {CmdStart, Padded}}

ChatCommands == {Message(c, Profile(ADMIN_ID), "text", CmdAdmin) : c \in AdminChats}

ChatCallbacks ==
    {CallbackQuery(c, Profile(ADMIN_ID), <<d>>) :
        c \in AdminChats,
        d \in {"admin_broadcast", "admin_set_card", "broadcast_cancel"}}

NextChats ==
    \/ \E m \in ChatMessages : cmd_start(m)
    \/ \E m \in ChatCommands : cmd_admin(m)
    \/ \E cb \in ChatCallbacks : admin_broadcast(cb)
    \/ \E m \in ChatMessages : receive_broadcast_text(m)
    \/ \E cb \in ChatCallbacks : broadcast_confirm_or_cancel(cb, 0)
    \/ \E cb \in ChatCallbacks : admin_set_card(cb)
    \/ \E m \in ChatMessages : receive_card_number(m)
    \/ \E m \in ChatMessages : receive_recipient_fio(m)
    \/ \E m \in ChatMessages : catch_all(m)
    \/ \E c \in Continuations, ok \in BOOLEAN : resume(c, ok)

SpecChats == Init /\ [][NextChats]_vars

\* ------------------------------------------------------------------------
\* SpecFallback: messages that match no action, an unknown command among
\* them, sent with and without a payment flow under way
\* ------------------------------------------------------------------------
Help == <<"/", "h", "e", "l", "p">>

FallbackMessages ==
    {Message(u, Profile(u), "text", t) : u \in Users, t \in {CmdStart, Help, Padded}}
    \cup {Message(u, Profile(u), "photo", <<>>) : u \in Users}

FallbackCommands == {Message(u, Profile(u), "text", CmdAdmin) : u \in Users}

FallbackCallbacks == {CallbackQuery(u, Profile(u), <<"admin_set_card">>) : u \in Users}

NextFallback ==
    \/ \E m \in FallbackMessages : cmd_start(m)
    \/ \E m \in FallbackCommands : cmd_admin(m)
    \/ \E cb \in FallbackCallbacks : admin_set_card(cb)
    \/ \E m \in FallbackMessages : receive_card_number(m)
    \/ \E m \in FallbackMessages : receive_recipient_fio(m)
    \/ \E m \in FallbackMessages \cup FallbackCommands : catch_all(m)
    \/ \E c \in Continuations, ok \in BOOLEAN : resume(c, ok)

SpecFallback == Init /\ [][NextFallback]_vars

\* ------------------------------------------------------------------------
\* SpecTwice: the broadcast flow run by the administrator more than once,
\* with room for a second loop while the first is still sending
\* ------------------------------------------------------------------------
TwoDispatches == MaxDispatch + 1

TwiceMessages ==
    {Message(ADMIN_ID, Profile(ADMIN_ID), "text", t) : t \in {CmdStart, Padded, Hello}}

TwiceCallbacks ==
    {CallbackQuery(ADMIN_ID, Profile(ADMIN_ID), <<d>>) :
        d \in {"admin_broadcast", "broadcast_confirm", "broadcast_cancel"}}

NextTwice ==
    \/ \E m \in TwiceMessages : cmd_start(m)
    \/ \E cb \in TwiceCallbacks : admin_broadcast(cb)
    \/ \E m \in TwiceMessages : receive_broadcast_text(m)
    \/ \E cb \in TwiceCallbacks : broadcast_confirm_or_cancel(cb, TwoDispatches)
    \/ \E d \in 1..TwoDispatches, ok \in BOOLEAN : dispatch_start(d, ok)
    \/ \E d \in 1..TwoDispatches, ok \in BOOLEAN : dispatch_send(d, ok)
    \/ \E d \in 1..TwoDispatches, ok \in BOOLEAN : dispatch_report(d, ok)
    \/ \E c \in Continuations, ok \in BOOLEAN : resume(c, ok)

SpecTwice == Init /\ [][NextTwice]_vars

\* ========================================================================
\* Properties
\* ========================================================================
NonAdmins == Users \ {ADMIN_ID}
NonAdminKeys == {k \in Keys : k[2] # ADMIN_ID}
\* a step in which a handler takes an admin action of a non-administrator
NonAdminAdminAction ==
    \/ \E m \in OtherMessages : m.from_user.id # ADMIN_ID /\ cmd_admin(m)
    \/ \E cb \in MainCallbacks :
          /\ cb.from_user.id # ADMIN_ID
          /\ \/ admin_broadcast(cb)
             \/ admin_set_card(cb)
             \/ broadcast_confirm_or_cancel(cb, MaxDispatch)

\* no session, and no handler about to set one, for a non-administrator
NonAdminIdle ==
    /\ \A k \in NonAdminKeys : storage[k] = NoSession
    /\ \A c \in BagToSet(pending) : c.then # "edit" => c.key[2] = ADMIN_ID

\* C1: an admin action of a non-administrator changes neither a session (nor
\* starts a handler that will) nor the settings, and no non-administrator
\* ever has a session other than the idle one.
C1_NonAdminStaysIdle ==
    /\ []NonAdminIdle
    /\ [][NonAdminAdminAction => UNCHANGED <<storage, pending, settings>>]_vars

\* a registered non-administrator can press the admin buttons and send /admin
\* while the administrator is in a flow; it is idle itself
C1_Witness ==
    /\ \E r \in users : r.user_id # ADMIN_ID
    /\ storage[AdminKey].state = "waiting_card_number"
    /\ \A k \in NonAdminKeys : storage[k] = NoSession
    /\ \A u \in NonAdmins :
          /\ ENABLED admin_broadcast(CallbackQuery(u, Profile(u), <<"admin_broadcast">>))
          /\ ENABLED admin_set_card(CallbackQuery(u, Profile(u), <<"admin_set_card">>))
          /\ ENABLED cmd_admin(Message(u, Profile(u), "text", CmdAdmin))

\* the administrator presses cancel under the preview
CancelStep(cb) ==
    /\ cb.from_user.id = ADMIN_ID
    /\ cb.data = <<"broadcast_cancel">>
    /\ broadcast_confirm_or_cancel(cb, MaxDispatch)

NothingDelivered == \A u \in Identities : inbox[u] = <<>>

\* C2: pressing cancel under the preview resets the session (state None, the
\* draft gone) and starts no dispatch and delivers nothing; as long as no
\* confirm press has been accepted, no broadcast message has been delivered.
C2_CancelDeliversNothing ==
    /\ [](dispatches = <<>> => NothingDelivered)
    /\ [][\A cb \in MainCallbacks :
            CancelStep(cb) =>
                /\ storage'[KeyOf(cb)] = NoSession
                /\ UNCHANGED <<dispatches, inbox>>]_vars

\* broadcast, a text, cancel: the session is idle again, users are registered,
\* nothing was delivered
C2_Witness ==
    /\ storage[AdminKey] = NoSession
    /\ entered[AdminKey].broadcast_text = Padded
    /\ pending = EmptyBag
    /\ dispatches = <<>>
    /\ users # {}
    /\ NothingDelivered

\* what the payment-details flow that completed last was given
FlowInputs == [card |-> Strip(lastFlow.x), fio |-> Strip(lastFlow.y)]

\* C3: once a payment-details flow has completed with the texts X then Y, the
\* stored card_number is X trimmed and the stored recipient_fio is Y trimmed.
C3_FlowStoresTrimmedInputs ==
    lastFlow.done => ReadPayment(settings) = FlowInputs

\* the pair the settings hold as a whole: the defaults of init_db, or what the
\* flow that completed last wrote
CurrentPair ==
    IF lastFlow.done THEN [card |-> lastFlow.card, fio |-> lastFlow.fio] ELSE DefaultPair

\* the two values a product-detail render shows
ShownPair(r) == [card |-> r.text.rekvizity[1], fio |-> r.text.rekvizity[2]]

IsProduct(r) == r # NoRender /\ r.reply_markup = ProductKeyboard

\* C4: the settings always hold a whole pair (both defaults, or both values of
\* the flow that completed last); a product-detail render reads that pair
\* whole, and what reaches the chat is the pair it read: both values from
\* before a flow's writes or both from after them, never one of each.
C4_RenderShowsWholePair ==
    /\ [](ReadPayment(settings) = CurrentPair)
    /\ [][\A cb \in SchoolCallbacks :
            process_school(cb) =>
                \E c \in BagToSet(pending') :
                    /\ c.then = "edit"
                    /\ c.key = KeyOf(cb)
                    /\ ShownPair(c.render) = CurrentPair]_vars
    /\ [][\A c \in BagToSet(pending) :
            process_school_edit(c, TRUE) =>
                /\ IsProduct(rendered')
                /\ ShownPair(rendered') = ShownPair(c.render)]_vars

\* a render read the settings, a flow then wrote both, and the render reached
\* the chat before the handler of the flow had ended: it shows both old values
C4_Witness ==
    /\ IsProduct(rendered)
    /\ lastFlow.done
    /\ CurrentPair.card # DEFAULT_CARD
    /\ CurrentPair.fio # DEFAULT_FIO
    /\ ShownPair(rendered) = DefaultPair
    /\ BagIn([key |-> AdminKey, then |-> "finish", render |-> NoRender], pending)

\* the turns of a loop whose send returned
Oks(log) == {i \in 1..Len(log) : log[i].ok}

\* the loop walks its list in order, counts each turn once, and delivers on
\* the turns whose send returned
CountsMatch(t) ==
    /\ Len(t.log) <= Len(t.user_ids)
    /\ \A i \in 1..Len(t.log) : t.log[i].uid = t.user_ids[i]
    /\ \A i, j \in 1..Len(t.user_ids) : t.user_ids[i] = t.user_ids[j] => i = j
    /\ t.sent = Cardinality(Oks(t.log))
    /\ t.failed = Len(t.log) - Cardinality(Oks(t.log))
    /\ \A u \in Identities :
          inbox[u] = IF \E i \in Oks(t.log) : t.log[i].uid = u THEN <<t.text>> ELSE <<>>

\* C5: a confirmed broadcast attempts every identity of its recipient list
\* exactly once, whichever sends fail; the report after the last attempt has
\* sent = the deliveries, failed = the failures, and sent + failed = n.
C5_EveryRecipientAttemptedOnce ==
    \A d \in 1..Len(dispatches) :
        LET t == dispatches[d]
        IN /\ CountsMatch(t)
           /\ t.pc \in {"send", "report", "done"} => t.user_ids = db_get_all_user_ids(users)
           /\ t.pc \in {"report", "done", "raised"} => Len(t.log) = Len(t.user_ids)
           /\ t.pc = "done" =>
                 /\ t.report = <<[sent |-> Cardinality(Oks(t.log)),
                                  failed |-> Len(t.log) - Cardinality(Oks(t.log))]>>
                 /\ t.report[1].sent + t.report[1].failed = Len(t.user_ids)

\* NumRecipients recipients, the third fails: the report counts all but one
\* sent, one failed
C5_Witness ==
    /\ dispatches # <<>>
    /\ dispatches[1].pc = "done"
    /\ Len(dispatches[1].user_ids) = NumRecipients
    /\ \A i \in 1..NumRecipients : dispatches[1].log[i].ok <=> i # 3
    /\ dispatches[1].report = <<[sent |-> NumRecipients - 1, failed |-> 1]>>
    /\ inbox[3] = <<>>
    /\ inbox[NumRecipients] = <<Hello>>

\* the first BROADCAST_CAP characters of a longer text, a shorter text whole
Stored(text) ==
    IF Len(text) > BROADCAST_CAP THEN SubSeq(text, 1, BROADCAST_CAP) ELSE text

\* C6: a broadcast text of any length is taken: the draft is its first 4000
\* characters if it is longer (exactly 4000 then) and the text itself if not,
\* and the handler goes on to the preview, after which the session awaits the
\* confirmation.
C6_DraftIsCapped ==
    /\ [][\A m \in LongMessages :
            receive_broadcast_text(m) =>
                LET draft == storage'[KeyOf(m)].data.broadcast_text
                IN /\ draft = Stored(m.text)
                   /\ Len(m.text) > BROADCAST_CAP => Len(draft) = BROADCAST_CAP
                   /\ BagIn([key |-> KeyOf(m), then |-> "waiting_broadcast_confirm",
                             render |-> NoRender], pending')]_vars
    /\ [][\A c \in Continuations :
            (c.then = "waiting_broadcast_confirm" /\ resume(c, TRUE)) =>
                /\ storage'[c.key].state = "waiting_broadcast_confirm"
                /\ storage'[c.key].data = storage[c.key].data]_vars

\* a text two characters over the cap was taken and cut to the cap
C6_Witness ==
    /\ storage[AdminKey].state = "waiting_broadcast_confirm"
    /\ entered[AdminKey].broadcast_text = Fill(BROADCAST_CAP + 2, "b")
    /\ Len(storage[AdminKey].data.broadcast_text) = BROADCAST_CAP
    /\ storage[AdminKey].data.broadcast_text = Fill(BROADCAST_CAP, "a")

RegisteredIds(table) == {r.user_id : r \in table}

\* the row a /start leaves
RowOf(s) ==
    [user_id |-> s.id,
     username |-> OrEmpty(s.user.username),
     first_name |-> OrEmpty(s.user.first_name),
     last_name |-> OrEmpty(s.user.last_name),
     registered_at |-> s.at]

\* C7: the registry holds one row per identity that has sent /start, no other
\* row, each with the display fields and the time of that identity's last
\* /start; and no step removes an identity from it.
C7_RegistrationIsUpsert ==
    /\ [](users = {RowOf(s) : s \in started})
    /\ [](\A r1, r2 \in users : r1.user_id = r2.user_id => r1 = r2)
    /\ [][RegisteredIds(users) \subseteq RegisteredIds(users')]_vars

\* every user has started, one of them again later and under other names
C7_Witness ==
    /\ Cardinality(users) = NumUsers
    /\ \E s \in started :
          /\ s.first_at # s.at
          /\ s.user.username = "nick"
          /\ RowOf(s) \in users
          /\ Cardinality({r \in users : r.user_id = s.id}) = 1

\* /start, buy, a subject, a program, back, back
RoundTrip ==
    <<"cmd_start", "process_buy", "process_subject", "process_school",
      "back_subjects", "back_start">>

\* C8: after /start, buy, a subject, a program, back and back the menu message
\* has the text and the keyboard that /start rendered.
C8_RoundTripRestoresWelcome ==
    trail = RoundTrip =>
        /\ rendered.text = WelcomeText
        /\ rendered.reply_markup = make_start_keyboard

\* a dispatch whose loop has not ended
InProgress(t) == t.pc \in {"answer", "send", "report"}
Ended(t) == t.pc \in {"done", "raised"}

\* C9: while a dispatch is in progress the session of its administrator stays
\* in the state the confirm press found it in; no press or command changes it.
C9_DispatchBlocksAdmin ==
    \A d \in 1..Len(dispatches) :
        InProgress(dispatches[d]) =>
            storage[dispatches[d].key].state = "waiting_broadcast_confirm"

\* C10: the step that ends a confirmed dispatch has attempted every identity of
\* its recipient list and leaves the session of its administrator idle,
\* whatever the sends and the report did.
C10_DispatchEndsIdle ==
    [][\A d \in 1..Len(dispatches) :
          (InProgress(dispatches[d]) /\ Ended(dispatches'[d])) =>
              /\ Len(dispatches'[d].log) = Len(dispatches'[d].user_ids)
              /\ storage'[dispatches[d].key] = NoSession]_vars

\* an effect that the administrator's input has when no flow is under way: a
\* registration, a render of the menu, a flow started
IdleTimeEffect ==
    \/ users' # users
    \/ rendered' # rendered
    \/ \E cb \in ChatCallbacks : admin_broadcast(cb) \/ admin_set_card(cb)

\* C11: while the administrator has a session that is not idle, no step has an
\* idle-time effect of the administrator's input: nothing is registered, no
\* menu is rendered, no second flow is started.
C11_StateRoutesAdminInput ==
    [][(\E k \in AdminKeys : storage[k].state # None) => ~IdleTimeEffect]_vars

\* a step that handles a press of the confirm or the cancel button
ConfirmOrCancelStep == \E cb \in ChatCallbacks : broadcast_confirm_or_cancel(cb, 0)

\* C12: while a session of the administrator awaits the confirmation, every
\* step other than a confirm or cancel press leaves that session (state and
\* draft), every inbox and both settings as they were.
C12_ConfirmStateIgnoresOtherInput ==
    [][\A k \in AdminKeys :
          (storage[k].state = "waiting_broadcast_confirm" /\ ~ConfirmOrCancelStep) =>
              /\ storage'[k] = storage[k]
              /\ inbox' = inbox
              /\ settings' = settings]_vars

\* what the fallback leaves alone: every session, both settings, the registry
FallbackFrame ==
    /\ storage' = storage
    /\ settings' = settings
    /\ users' = users

\* C13: a message that matches no action, from a sender with no session, is
\* answered with the notice unless its text starts with a slash, in which case
\* it gets no answer; in both cases sessions, settings and registry stay.
C13_FallbackAnswersNonCommands ==
    [][fallback' # fallback =>
          /\ storage[<<fallback'.chat, fallback'.chat>>].state = None
          /\ fallback'.notice <=> ~fallback'.slash
          /\ FallbackFrame]_vars

\* an unknown command was taken by the fallback and got no answer
C13_Witness ==
    /\ fallback # NoFallback
    /\ fallback.slash
    /\ ~fallback.notice
    /\ storage[<<fallback.chat, fallback.chat>>].state = None

\* C13 as stated: every message the fallback takes, an unrecognized command
\* included, is answered with the notice and changes nothing.
C13_FallbackAnswersEverything ==
    [][fallback' # fallback => (fallback'.notice /\ FallbackFrame)]_vars

\* the text messages of every specification
AnyTextMessage == TextMessages \cup PayMessages \cup ChatMessages \cup FallbackMessages

\* the step that handles the administrator's text while the recipient name is awaited
RecipientNameStep ==
    \E m \in AnyTextMessage :
        /\ m.from_user.id = ADMIN_ID
        /\ storage[KeyOf(m)].state = "waiting_recipient_fio"
        /\ receive_recipient_fio(m)

\* C14: a step that changes the settings is the step handling the
\* administrator's text in the state that awaits the recipient name; every
\* other step leaves card_number and recipient_fio as they were.
C14_OnlyRecipientNameStepWrites ==
    [][settings' # settings => RecipientNameStep]_vars

\* the settings were overwritten by a payment flow that has ended, and other
\* actions have run since without touching them
C14_Witness ==
    /\ lastFlow.done
    /\ settings # InitSettings
    /\ ReadPayment(settings) = [card |-> lastFlow.card, fio |-> lastFlow.fio]
    /\ users # {}
    /\ \E k \in AdminKeys : storage[k].state = "waiting_broadcast_confirm"

\* the administrator's press of the confirm button is handled
ConfirmPress ==
    broadcast_confirm_or_cancel(
        CallbackQuery(ADMIN_ID, Profile(ADMIN_ID), <<"broadcast_confirm">>), TwoDispatches)

\* a dispatch of the session is running and the session still awaits the
\* confirmation with the draft that dispatch is sending
StillConfirming(d) ==
    /\ InProgress(dispatches[d])
    /\ dispatches[d].key = AdminKey
    /\ storage[AdminKey].state = "waiting_broadcast_confirm"
    /\ data_get(storage[AdminKey].data, "broadcast_text") = dispatches[d].text

\* C15: while a dispatch is running and the session still awaits the
\* confirmation, a confirm press is accepted, and the step that handles it
\* starts one more dispatch of the same draft beside the running one.
C15_SecondConfirmStartsSecondDispatch ==
    [][\A d \in 1..Len(dispatches) :
          (StillConfirming(d) /\ Len(dispatches) < TwoDispatches) =>
              /\ ENABLED ConfirmPress
              /\ ConfirmPress =>
                    /\ Len(dispatches') = Len(dispatches) + 1
                    /\ dispatches'[d] = dispatches[d]
                    /\ dispatches'[Len(dispatches')] = NewDispatch(AdminKey, dispatches[d].text)]_vars

\* two dispatches of one draft are running at once and a registered user has
\* got that broadcast twice
C15_Witness ==
    /\ Len(dispatches) = 2
    /\ InProgress(dispatches[1])
    /\ InProgress(dispatches[2])
    /\ dispatches[1].text = dispatches[2].text
    /\ \E u \in RegisteredIds(users) : inbox[u] = <<dispatches[1].text, dispatches[1].text>>

\* the sessions of the administrator that are not idle, under whatever chat
AdminSessions == {k \in AdminKeys : storage[k].state # None}

BroadcastStates == {"waiting_broadcast_text", "waiting_broadcast_confirm"}
PaymentStates == {"waiting_card_number", "waiting_recipient_fio"}

\* C16: the administrator has at most one session that is not idle: it is
\* never in the broadcast flow and in the payment-details flow at once, nor in
\* two sessions kept under different chats.
C16_OneAdminSession ==
    /\ Cardinality(AdminSessions) <= 1
    /\ ~\E j, k \in AdminKeys :
          /\ storage[j].state \in BroadcastStates
          /\ storage[k].state \in PaymentStates

\* the reply that follows the two writes of receive_recipient_fio has
\* returned and the handler ends with state.finish()
PaymentFlowEnds(k) ==
    resume([key |-> k, then |-> "finish", render |-> NoRender], TRUE)

\* C17: a session of the administrator that is in the payment-details flow
\* becomes idle only by the step that ends receive_recipient_fio, after both
\* settings were overwritten; no other step takes it out of the flow.
C17_PaymentFlowHasNoCancel ==
    [][\A k \in AdminKeys :
          (storage[k].state \in PaymentStates /\ storage'[k].state = None) =>
              /\ PaymentFlowEnds(k)
              /\ lastFlow.done
              /\ ReadPayment(settings) = [card |-> lastFlow.card, fio |-> lastFlow.fio]]_vars

\* the identities on the recipient list of a dispatch
Listed(t) == {t.user_ids[i] : i \in 1..Len(t.user_ids)}

\* C18: a dispatch reads the registry once, when its confirm handler gets to
\* the read, and keeps that list to its end: only listed identities get a
\* message, one that registers later gets none, and the reported counts add up
\* to the length of the list read, whatever the registry holds by then.
C18_RecipientListReadOnce ==
    /\ [](\A d \in 1..Len(dispatches) :
            LET t == dispatches[d]
            IN /\ t.pc = "answer" => (t.user_ids = <<>> /\ t.log = <<>>)
               /\ \A i \in 1..Len(t.log) : t.log[i].uid \in Listed(t)
               /\ t.pc = "done" =>
                     /\ Len(t.report) = 1
                     /\ t.report[1].sent + t.report[1].failed = Len(t.user_ids))
    /\ [][\A d \in 1..Len(dispatches) :
            /\ (dispatches[d].pc = "answer" /\ dispatches'[d].pc \notin {"answer", "raised"}) =>
                  dispatches'[d].user_ids = db_get_all_user_ids(users)
            /\ dispatches[d].pc # "answer" => dispatches'[d].user_ids = dispatches[d].user_ids]_vars
    /\ [][\A u \in Identities :
            inbox'[u] # inbox[u] =>
                \E d \in 1..Len(dispatches) : InProgress(dispatches[d]) /\ u \in Listed(dispatches[d])]_vars

\* a dispatch has made its last send and is about to report; an identity
\* that registered after the list was read, so while the dispatch ran, is in
\* the registry and got nothing, and the counts add up to the list that was read
C18_Witness ==
    /\ Len(dispatches) = 1
    /\ dispatches[1].pc = "report"
    /\ dispatches[1].user_ids = <<ADMIN_ID>>
    /\ RegisteredIds(users) = Users
    /\ \A u \in Users \ {ADMIN_ID} : inbox[u] = <<>>
    /\ inbox[ADMIN_ID] = <<dispatches[1].text>>
    /\ dispatches[1].sent + dispatches[1].failed = 1
    /\ Cardinality(users) > Len(dispatches[1].user_ids)

\* the dispatch a step has started, if it started one
Started == dispatches'[Len(dispatches')]

\* C19: a dispatch is started with the capped text that the flow it belongs
\* to accepted last, and keeps it; every message delivered is the text of a
\* dispatch that is sending; so no draft of a cancelled or ended flow is
\* delivered by a later one. A session that is idle has no data.
C19_DeliveredTextIsCurrentDraft ==
    /\ [](\A k \in Keys : storage[k].state = None => storage[k].data = NoData)
    /\ [][Len(dispatches') > Len(dispatches) =>
            /\ Started.text = Truncate(entered[Started.key].current)
            /\ Len(Started.text) <= BROADCAST_CAP]_vars
    /\ [][\A d \in 1..Len(dispatches) : dispatches'[d].text = dispatches[d].text]_vars
    /\ [][\A u \in Identities :
            inbox'[u] # inbox[u] =>
                \E d \in 1..Len(dispatches) :
                    /\ dispatches[d].pc = "send"
                    /\ dispatches[d].text # <<>>
                    /\ inbox'[u] = Append(inbox[u], dispatches[d].text)]_vars

\* a first flow was given one draft and dispatched it, a later flow was given
\* another: the administrator got each text once, the later flow delivered
\* its own draft, and the session is idle with no data
C19_Witness ==
    /\ Len(dispatches) = 2
    /\ dispatches[1].pc = "done"
    /\ dispatches[2].pc = "done"
    /\ dispatches[1].text = Padded
    /\ dispatches[2].text = Hello
    /\ inbox[ADMIN_ID] = <<Padded, Hello>>
    /\ storage[AdminKey] = NoSession

=============================================================================
